---- MODULE Spec2Model ----
(***************************************************************************)
(* HS mapping tool (src/app.py): the prefix index, the pairwise relation   *)
(* classifier, the strict alignment extractor, the entity mapper, the      *)
(* st.cache_data memoization around them and the Streamlit pages that      *)
(* drive them through st.session_state.                                    *)
(*                                                                         *)
(* HS codes are sequences of digits.  A Python dict is modelled as         *)
(* [kind |-> "dict", items |-> <<<<key, value>>, ...>>] in insertion order, *)
(* a Python tuple of (key, value) pairs as the same record with            *)
(* kind = "tuple": the two differ in what attribute access they allow.     *)
(***************************************************************************)
EXTENDS Integers, Sequences, FiniteSets, TLC

\* ------------------------------------------------------------------------
\* Bounds of the model
\* ------------------------------------------------------------------------
\* number of distinct codes the largest tree file registers at one prefix
MaxCodes == 6
\* number of entities in an uploaded ASIN list
MaxEntities == 2
\* number of Add Tree uploads in one session
MaxUploads == 3
\* number of tokens a raw cell of an uploaded column is made of
MaxTokens == 4

\* ------------------------------------------------------------------------
\* Program constants
\* ------------------------------------------------------------------------
DIGITS == 6
SampleSize == 5
MinCodeLen == 4

\* ------------------------------------------------------------------------
\* Generic helpers
\* ------------------------------------------------------------------------
Min(a, b) == IF a < b THEN a ELSE b

Range(s) == {s[i] : i \in 1..Len(s)}

RECURSIVE GCD(_, _)
GCD(a, b) == IF b = 0 THEN a ELSE GCD(b, a % b)

\* Python string comparison on digit strings: lexicographic, a proper prefix first
LexLess(a, b) ==
  \/ \E i \in 1..Min(Len(a), Len(b)) :
        /\ a[i] < b[i]
        /\ \A j \in 1..(i - 1) : a[j] = b[j]
  \/ /\ Len(a) < Len(b)
     /\ \A j \in 1..Len(a) : a[j] = b[j]

\* sorted(...) of a set of digit strings
RECURSIVE SortedOfSet(_)
SortedOfSet(S) ==
  IF S = {} THEN <<>>
  ELSE LET m == CHOOSE x \in S : \A y \in S \ {x} : LexLess(x, y)
       IN <<m>> \o SortedOfSet(S \ {m})

\* sorted(list) of a list of digit strings (duplicates kept)
RECURSIVE Sorted(_)
Sorted(s) ==
  IF s = <<>> THEN <<>>
  ELSE LET i == CHOOSE k \in 1..Len(s) : \A j \in 1..Len(s) : ~LexLess(s[j], s[k])
       IN <<s[i]>> \o Sorted(SubSeq(s, 1, i - 1) \o SubSeq(s, i + 1, Len(s)))

\* the Python string "": codes are strings, modelled as digit sequences
EmptyString == <<>>

\* s[:n]
Take(s, n) == SubSeq(s, 1, Min(n, Len(s)))

\* pandas Series.unique(): distinct values in order of first appearance
RECURSIVE Unique(_)
Unique(s) ==
  IF s = <<>> THEN <<>>
  ELSE LET r == Unique(SubSeq(s, 1, Len(s) - 1))
           x == s[Len(s)]
       IN IF x \in Range(r) THEN r ELSE Append(r, x)

\* itertools.combinations(markets, 2): index pairs i < j, in lexicographic order
RECURSIVE CombosFrom(_, _, _)
CombosFrom(markets, i, j) ==
  IF i >= Len(markets) THEN <<>>
  ELSE IF j > Len(markets) THEN CombosFrom(markets, i + 1, i + 2)
  ELSE <<<<markets[i], markets[j]>>>> \o CombosFrom(markets, i, j + 1)

Combinations2(markets) == CombosFrom(markets, 1, 2)

\* ------------------------------------------------------------------------
\* Python dict / tuple-of-pairs values
\* ------------------------------------------------------------------------
PyDict(items) == [kind |-> "dict", items |-> items]
PyTuple(items) == [kind |-> "tuple", items |-> items]
EmptyDict == PyDict(<<>>)

\* only a dict has a .get attribute; on a tuple the access raises AttributeError
HasGet(x) == x.kind = "dict"

DictKeys(d) == [i \in 1..Len(d.items) |-> d.items[i][1]]
DictValues(d) == [i \in 1..Len(d.items) |-> d.items[i][2]]
DictHas(d, k) == \E i \in 1..Len(d.items) : d.items[i][1] = k

\* d.get(k, default)
DictGet(d, k, default) ==
  IF DictHas(d, k)
  THEN d.items[CHOOSE i \in 1..Len(d.items) : d.items[i][1] = k][2]
  ELSE default

\* d[k] = v : replaces in place, appends a new key at the end
DictSet(d, k, v) ==
  IF DictHas(d, k)
  THEN PyDict([i \in 1..Len(d.items) |->
                 IF d.items[i][1] = k THEN <<k, v>> ELSE d.items[i]])
  ELSE PyDict(Append(d.items, <<k, v>>))

\* del d[k]
DictDel(d, k) == PyDict(SelectSeq(d.items, LAMBDA it : it[1] # k))

\* dict(zip(keys, values)); the keys passed here are the keys of a dict, so distinct
DictZip(keys, values) ==
  PyDict([i \in 1..Min(Len(keys), Len(values)) |-> <<keys[i], values[i]>>])

\* ------------------------------------------------------------------------
\* Normalized records
\* ------------------------------------------------------------------------
\* hs_code.str[:digits]
Prefix(code) == Take(code, DIGITS)

\* the rows process_tree_data returns for already digit-only codes
TreeRows(market, codes) ==
  LET kept == SelectSeq(codes, LAMBDA c : Len(c) >= MinCodeLen)
  IN [i \in 1..Len(kept) |->
        [market |-> market, hs_code |-> kept[i], prefix |-> Prefix(kept[i])]]

\* raw cells are sequences of one-character strings
DigitChars == <<"0", "1", "2", "3", "4", "5", "6", "7", "8", "9">>

IsDigit(c) == c \in Range(DigitChars)

IsSpace(c) == c = " "

\* the digit a digit character stands for
DigitVal(c) == (CHOOSE k \in 1..Len(DigitChars) : DigitChars[k] = c) - 1

\* str.strip(): whitespace off both ends
RECURSIVE LStrip(_)
LStrip(s) ==
  IF s # <<>> /\ IsSpace(s[1]) THEN LStrip(Tail(s)) ELSE s

RECURSIVE RStrip(_)
RStrip(s) ==
  IF s # <<>> /\ IsSpace(s[Len(s)]) THEN RStrip(SubSeq(s, 1, Len(s) - 1)) ELSE s

Strip(s) == RStrip(LStrip(s))

\* a plausible slip: the pattern without its $ anchor removes every ".0"
RECURSIVE StripDotZeroAll(_)
StripDotZeroAll(s) ==
  IF Len(s) < 2 THEN s
  ELSE IF s[1] = "." /\ s[2] = "0" THEN StripDotZeroAll(SubSeq(s, 3, Len(s)))
  ELSE <<s[1]>> \o StripDotZeroAll(Tail(s))

\* str.replace(r'\.0$', '', regex=True): one ".0" at the very end
StripDotZero(s) ==
  IF Len(s) >= 2 /\ s[Len(s) - 1] = "." /\ s[Len(s)] = "0"
  THEN SubSeq(s, 1, Len(s) - 2) ELSE s

\* str.replace(r'[^0-9]', '', regex=True)
DigitsOnly(s) == SelectSeq(s, IsDigit)

\* the three cleaning steps on one cell, as the digit sequence of the result
CleanCode(raw) ==
  LET digits == DigitsOnly(StripDotZero(Strip(raw)))
  IN [i \in 1..Len(digits) |-> DigitVal(digits[i])]

\* process_tree_data on the selected code column
ProcessTreeData(column, market_name) ==
  LET result == TreeRows(market_name,
                         [i \in 1..Len(column) |-> CleanCode(column[i])])
  IN [df |-> result, count |-> Len(result)]

\* ------------------------------------------------------------------------
\* build_prefix_lookup
\* ------------------------------------------------------------------------
\* group[group.market == market]["hs_code"].unique().tolist()
GroupCodes(df, prefix, market) ==
  LET sel == SelectSeq(df, LAMBDA r : r.prefix = prefix /\ r.market = market)
  IN Unique([i \in 1..Len(sel) |-> sel[i].hs_code])

BuildPrefixLookup(df, markets) ==
  LET prefixes == SortedOfSet({df[i].prefix : i \in 1..Len(df)})
  IN PyDict([p \in 1..Len(prefixes) |->
       <<prefixes[p],
         PyDict([m \in 1..Len(markets) |->
                   <<markets[m], GroupCodes(df, prefixes[p], markets[m])>>])>>])

\* ------------------------------------------------------------------------
\* analyze_pairs_cached (body, without the cache)
\* ------------------------------------------------------------------------
\* a plausible slip: the Many-to-One branch left out
RelationNoManyToOne(cA, cB) ==
  IF cA = 0 \/ cB = 0 THEN "No Match"
  ELSE IF cA = 1 /\ cB = 1 THEN "One-to-One"
  ELSE IF cA = 1 /\ cB > 1 THEN "One-to-Many"
  ELSE "Many-to-Many"

\* the if / elif chain of the classifier
Relation(cA, cB) ==
  IF cA = 0 \/ cB = 0 THEN "No Match"
  ELSE IF cA = 1 /\ cB = 1 THEN "One-to-One"
  ELSE IF cA = 1 /\ cB > 1 THEN "One-to-Many"
  ELSE IF cA > 1 /\ cB = 1 THEN "Many-to-One"
  ELSE "Many-to-Many"

\* sorted(codes)[:5]
Sample(codes) == Take(Sorted(codes), SampleSize)

\* a plausible slip: the counts taken from the truncated sample
PairRowFromSample(prefix, market_codes, A, B) ==
  LET codes_A == DictGet(market_codes, A, <<>>)
      codes_B == DictGet(market_codes, B, <<>>)
      cA == Len(Sample(codes_A))
      cB == Len(Sample(codes_B))
  IN [HS_Prefix |-> prefix, Relation |-> Relation(cA, cB),
      A_Count |-> cA, B_Count |-> cB,
      A_Codes |-> Sample(codes_A), B_Codes |-> Sample(codes_B)]

\* one row of a pairwise report
PairRow(prefix, market_codes, A, B) ==
  LET codes_A == DictGet(market_codes, A, <<>>)
      codes_B == DictGet(market_codes, B, <<>>)
      cA == Len(codes_A)
      cB == Len(codes_B)
  IN [HS_Prefix |-> prefix, Relation |-> Relation(cA, cB),
      A_Count |-> cA, B_Count |-> cB,
      A_Codes |-> Sample(codes_A), B_Codes |-> Sample(codes_B)]

ZeroStats ==
  [one_to_one |-> 0, one_to_many |-> 0, many_to_one |-> 0,
   many_to_many |-> 0, no_match |-> 0]

\* a plausible slip: the No Match branch does not count
BumpStatsNoMatchLost(s, relation) ==
  IF relation = "No Match" THEN s
  ELSE IF relation = "One-to-One" THEN [s EXCEPT !.one_to_one = @ + 1]
  ELSE IF relation = "One-to-Many" THEN [s EXCEPT !.one_to_many = @ + 1]
  ELSE IF relation = "Many-to-One" THEN [s EXCEPT !.many_to_one = @ + 1]
  ELSE [s EXCEPT !.many_to_many = @ + 1]

\* pair_stats[...] += 1 in the branch that set the relation
BumpStats(s, relation) ==
  IF relation = "No Match" THEN [s EXCEPT !.no_match = @ + 1]
  ELSE IF relation = "One-to-One" THEN [s EXCEPT !.one_to_one = @ + 1]
  ELSE IF relation = "One-to-Many" THEN [s EXCEPT !.one_to_many = @ + 1]
  ELSE IF relation = "Many-to-One" THEN [s EXCEPT !.many_to_one = @ + 1]
  ELSE [s EXCEPT !.many_to_many = @ + 1]

\* one_to_one / total * 100 if total > 0 else 0, as the exact fraction <<num, den>>
Percentage(one_to_one, total) ==
  IF total > 0
  THEN LET g == GCD(one_to_one * 100, total)
       IN <<(one_to_one * 100) \div g, total \div g>>
  ELSE <<0, 1>>

\* the loop over lookup.items() for one pair
RECURSIVE PairLoop(_, _, _, _, _, _)
PairLoop(items, A, B, i, rows, pair_stats) ==
  IF i > Len(items) THEN [rows |-> rows, pair_stats |-> pair_stats]
  ELSE LET row == PairRow(items[i][1], items[i][2], A, B)
       IN PairLoop(items, A, B, i + 1, Append(rows, row),
                   BumpStats(pair_stats, row.Relation))

\* the statistics entry stored for one pair
FinalStats(pair_stats) ==
  LET total == pair_stats.one_to_one + pair_stats.one_to_many
               + pair_stats.many_to_one + pair_stats.many_to_many
  IN [one_to_one |-> pair_stats.one_to_one,
      one_to_many |-> pair_stats.one_to_many,
      many_to_one |-> pair_stats.many_to_one,
      many_to_many |-> pair_stats.many_to_many,
      no_match |-> pair_stats.no_match,
      total_shared |-> total,
      percentage |-> Percentage(pair_stats.one_to_one, total)]

\* the first market_codes.get(...) on a value that is not a dict raises
AnalyzeRaises(lookup_keys, lookup_values, markets) ==
  LET lookup == DictZip(lookup_keys, lookup_values)
  IN /\ Combinations2(markets) # <<>>
     /\ \E i \in 1..Len(lookup.items) : ~HasGet(lookup.items[i][2])

AnalyzePairs(lookup_keys, lookup_values, markets) ==
  IF AnalyzeRaises(lookup_keys, lookup_values, markets)
  THEN [exc |-> "AttributeError"]
  ELSE LET lookup == DictZip(lookup_keys, lookup_values)
           pairs == Combinations2(markets)
           loop(k) == PairLoop(lookup.items, pairs[k][1], pairs[k][2], 1,
                               <<>>, ZeroStats)
       IN [exc |-> "none",
           results |-> PyDict([k \in 1..Len(pairs) |-> <<pairs[k], loop(k).rows>>]),
           stats |-> PyDict([k \in 1..Len(pairs) |->
                               <<pairs[k], FinalStats(loop(k).pair_stats)>>])]

\* ------------------------------------------------------------------------
\* get_strict_one_to_one_cached (body, without the cache)
\* ------------------------------------------------------------------------
\* a plausible slip: one market with a code is enough
EnoughMarketsOne(markets_with_codes) == markets_with_codes >= 1

\* markets_with_codes >= 2
EnoughMarkets(markets_with_codes) == markets_with_codes >= 2

\* the inner loop over markets; stops at the first market with more than one code
RECURSIVE StrictScan(_, _, _, _, _)
StrictScan(market_codes, markets, j, codes_found, markets_with_codes) ==
  IF j > Len(markets)
  THEN [is_strict |-> TRUE, codes_found |-> codes_found,
        markets_with_codes |-> markets_with_codes]
  ELSE LET codes == DictGet(market_codes, markets[j], <<>>)
       IN IF Len(codes) > 0
          THEN IF Len(codes) = 1
               THEN StrictScan(market_codes, markets, j + 1,
                               DictSet(codes_found, markets[j], codes[1]),
                               markets_with_codes + 1)
               ELSE [is_strict |-> FALSE, codes_found |-> codes_found,
                     markets_with_codes |-> markets_with_codes + 1]
          ELSE StrictScan(market_codes, markets, j + 1, codes_found,
                          markets_with_codes)

\* the row of a qualifying prefix: one Code_<market> cell per market, "" if none
StrictRow(prefix, markets, codes_found) ==
  [HS_Prefix |-> prefix,
   Code |-> PyDict([j \in 1..Len(markets) |->
                      <<markets[j], DictGet(codes_found, markets[j], EmptyString)>>])]

RECURSIVE StrictLoop(_, _, _, _)
StrictLoop(items, markets, i, rows) ==
  IF i > Len(items) THEN rows
  ELSE LET scan == StrictScan(items[i][2], markets, 1, EmptyDict, 0)
       IN IF scan.is_strict /\ EnoughMarkets(scan.markets_with_codes)
          THEN StrictLoop(items, markets, i + 1,
                          Append(rows, StrictRow(items[i][1], markets,
                                                 scan.codes_found)))
          ELSE StrictLoop(items, markets, i + 1, rows)

StrictRaises(lookup_keys, lookup_values, markets) ==
  LET lookup == DictZip(lookup_keys, lookup_values)
  IN /\ markets # <<>>
     /\ \E i \in 1..Len(lookup.items) : ~HasGet(lookup.items[i][2])

GetStrictOneToOne(lookup_keys, lookup_values, markets) ==
  IF StrictRaises(lookup_keys, lookup_values, markets)
  THEN [exc |-> "AttributeError"]
  ELSE [exc |-> "none",
        rows |-> StrictLoop(DictZip(lookup_keys, lookup_values).items,
                            markets, 1, <<>>)]

\* ------------------------------------------------------------------------
\* map_asins_fast
\* ------------------------------------------------------------------------
\* a plausible slip: the zero-target test left out
MapRelationNoZeroTest(sc, tc) ==
  IF sc = 1 /\ tc = 1 THEN "One-to-One"
  ELSE IF sc = 1 /\ tc > 1 THEN "One-to-Many"
  ELSE IF sc > 1 /\ tc = 1 THEN "Many-to-One"
  ELSE "Many-to-Many"

\* the if / elif chain of the mapper
MapRelation(sc, tc) ==
  IF tc = 0 THEN "No Match"
  ELSE IF sc = 1 /\ tc = 1 THEN "One-to-One"
  ELSE IF sc = 1 /\ tc > 1 THEN "One-to-Many"
  ELSE IF sc > 1 /\ tc = 1 THEN "Many-to-One"
  ELSE "Many-to-Many"

\* mini_lookup = {p: lookup.get(p, {}) for p in prefixes}
MiniLookup(asin_df, lookup) ==
  LET prefixes == Unique([i \in 1..Len(asin_df) |-> asin_df[i].prefix])
  IN PyDict([p \in 1..Len(prefixes) |->
               <<prefixes[p], DictGet(lookup, prefixes[p], EmptyDict)>>])

\* the result row of one entity
MapRow(row, mini_lookup, source_market, target_markets) ==
  LET market_codes == DictGet(mini_lookup, row.prefix, EmptyDict)
      sc == Len(DictGet(market_codes, source_market, <<>>))
      cell(target) ==
        LET target_codes == DictGet(market_codes, target, <<>>)
        IN [Relation |-> MapRelation(sc, Len(target_codes)),
            Codes |-> Sample(target_codes)]
  IN [ASIN |-> row.ASIN, Source_Code |-> row.hs_code, Prefix |-> row.prefix,
      Target |-> PyDict([t \in 1..Len(target_markets) |->
                           <<target_markets[t], cell(target_markets[t])>>])]

\* market_codes.get(source_market, []) runs for every row
MapRaises(asin_df, lookup) ==
  LET mini_lookup == MiniLookup(asin_df, lookup)
  IN \E i \in 1..Len(asin_df) :
        ~HasGet(DictGet(mini_lookup, asin_df[i].prefix, EmptyDict))

MapAsinsFast(asin_df, lookup, source_market, target_markets) ==
  IF MapRaises(asin_df, lookup)
  THEN [exc |-> "AttributeError"]
  ELSE LET mini_lookup == MiniLookup(asin_df, lookup)
       IN [exc |-> "none",
           rows |-> [i \in 1..Len(asin_df) |->
                       MapRow(asin_df[i], mini_lookup, source_market,
                              target_markets)]]

\* the ASIN Mapping page's preparation of the uploaded list (digit-only codes)
PrepareAsin(asin_raw) ==
  LET kept == SelectSeq(asin_raw, LAMBDA r : Len(r.hs_code) >= MinCodeLen)
  IN [i \in 1..Len(kept) |->
        [ASIN |-> kept[i].ASIN, hs_code |-> kept[i].hs_code,
         prefix |-> Prefix(kept[i].hs_code)]]

\* target_markets = [m for m in markets if m != source_market]
TargetMarkets(markets, source_market) ==
  SelectSeq(markets, LAMBDA m : m # source_market)

\* ------------------------------------------------------------------------
\* Inputs the model draws from
\* ------------------------------------------------------------------------
MarketNames == {"UAE", "KSA", "EGY"}

P1 == <<1, 0, 0, 0, 0, 1>>
P2 == <<1, 0, 0, 0, 0, 2>>
P9 == <<9, 0, 0, 0, 0, 9>>

\* an 8-digit code: Code(P1, 1) is "10000110"
Code(p, d) == p \o <<d, 0>>
ShortCode == <<2, 0, 0, 1>>
TooShortCode == <<9, 9, 9>>

\* digit-only code columns of uploaded tree files
FileEmpty == <<>>
FileOne == <<Code(P1, 1)>>
FileTwo == <<Code(P1, 2), Code(P1, 1), Code(P1, 2)>>
FileMixed == <<Code(P2, 1), ShortCode, TooShortCode>>
FileBig == [i \in 1..MaxCodes |-> Code(P1, MaxCodes + 1 - i)]
           \o <<Code(P2, 2), Code(P2, 1)>>

TreeFiles == {FileEmpty, FileOne, FileTwo, FileMixed, FileBig}

\* all orders of all subsets of S, as tuples
RECURSIVE Perms(_)
Perms(S) ==
  IF S = {} THEN {<<>>}
  ELSE UNION {{<<x>> \o t : t \in Perms(S \ {x})} : x \in S}

MarketTuples(lo) ==
  UNION {Perms(S) : S \in {T \in SUBSET MarketNames : Cardinality(T) >= lo}}

\* pd.concat of the loaded trees' tables, in load order
RECURSIVE ConcatTrees(_, _)
ConcatTrees(markets, files) ==
  IF markets = <<>> THEN <<>>
  ELSE TreeRows(markets[1], files[markets[1]])
       \o ConcatTrees(Tail(markets), files)

Entities ==
  {[ASIN |-> "B001", hs_code |-> Code(P1, 1)],
   [ASIN |-> "B002", hs_code |-> Code(P9, 1)],
   [ASIN |-> "B003", hs_code |-> Code(P2, 1)]}

SeqsUpTo(S, n) == UNION {[1..k -> S] : k \in 0..n}

AsinFiles == SeqsUpTo(Entities, MaxEntities)

\* ------------------------------------------------------------------------
\* State
\* ------------------------------------------------------------------------
VARIABLES
  trees,          \* st.session_state.trees: dict market -> [df, count]
  analysis_done,  \* st.session_state.analysis_done
  ss,             \* the other st.session_state keys, present once assigned
  cache,          \* st.cache_data entries of the three cached functions
  page,           \* the sidebar's navigation choice
  shown,          \* what the last script run rendered in the page body
  calls,          \* the cached-function calls made by the last script run
  uploads,        \* number of Add Tree uploads so far
  fn_in,          \* input of a direct application of the core functions
  fn_out          \* result of the last direct application

vars == <<trees, analysis_done, ss, cache, page, shown, calls, uploads,
          fn_in, fn_out>>

appVars == <<trees, analysis_done, ss, cache, page, shown, calls, uploads>>

NoKeys == [k \in {} |-> 0]

InitApp ==
  /\ trees = EmptyDict
  /\ analysis_done = FALSE
  /\ ss = NoKeys
  /\ cache = [build |-> EmptyDict, analyze |-> EmptyDict, strict |-> EmptyDict]
  /\ page = "Home"
  /\ shown = "home"
  /\ calls = <<>>
  /\ uploads = 0

\* ------------------------------------------------------------------------
\* st.cache_data
\* ------------------------------------------------------------------------
\* st.cache_data hashes the arguments whose names do not start with an
\* underscore: of (_df, markets) and of (_lookup_keys, _lookup_values, markets)
\* only markets makes the key.  A call that raises stores nothing.
CachedCall(entries, key, computed) ==
  IF DictHas(entries, key)
  THEN [ret |-> DictGet(entries, key, computed), entries |-> entries]
  ELSE [ret |-> computed,
        entries |-> IF computed.exc = "none"
                    THEN DictSet(entries, key, computed) ELSE entries]

EmptyCache == [build |-> EmptyDict, analyze |-> EmptyDict, strict |-> EmptyDict]

\* ------------------------------------------------------------------------
\* Pages
\* ------------------------------------------------------------------------
Pages == {"Home", "Load Trees", "Analysis", "ASIN Mapping", "Export"}

AppTreeFiles == {FileEmpty, FileOne, FileTwo}

AppAsinFiles ==
  {<<[ASIN |-> "B001", hs_code |-> Code(P1, 1)]>>,
   <<[ASIN |-> "B002", hs_code |-> Code(P9, 1)],
     [ASIN |-> "B004", hs_code |-> TooShortCode]>>}

Has(key) == key \in DOMAIN ss

\* a plausible slip: the guard lets a single market through
TooFewMarketsOne(n) == n < 1

\* len(st.session_state.trees) < 2
TooFewMarkets(n) == n < 2

\* the Display Results block: it indexes trees by every stored market
RenderResults(tr, session) ==
  IF \E m \in Range(session.markets) : ~DictHas(tr, m)
  THEN "KeyError" ELSE "results"

\* the page body a script run renders when no button was clicked
Render(p, tr, done, session) ==
  IF p = "Home" THEN "home"
  ELSE IF p = "Load Trees" THEN "trees"
  ELSE IF p = "Analysis"
       THEN IF TooFewMarkets(Len(tr.items)) THEN "warning_load_two"
            ELSE IF done THEN RenderResults(tr, session)
            ELSE "run_button"
  ELSE IF p = "ASIN Mapping"
       THEN IF ~done THEN "warning_run_first"
            ELSE IF "asin_results" \in DOMAIN session THEN "mapping_results"
            ELSE "mapping_form"
  ELSE IF ~done THEN "warning_run_first" ELSE "exports"

\* the sidebar radio: a script run on the chosen page
Navigate(p) ==
  /\ p # page
  /\ page' = p
  /\ shown' = Render(p, trees, analysis_done, ss)
  /\ calls' = <<>>
  /\ UNCHANGED <<trees, analysis_done, ss, cache, uploads, fn_in, fn_out>>

\* the sidebar's Clear Cache button, then the current page's body
ClearCache ==
  /\ cache' = EmptyCache
  /\ shown' = Render(page, trees, analysis_done, ss)
  /\ calls' = <<>>
  /\ UNCHANGED <<trees, analysis_done, ss, page, uploads, fn_in, fn_out>>

\* Load Trees: Add Tree with an uploaded file and a market name
AddTree(market_name, codes) ==
  /\ page = "Load Trees"
  /\ uploads < MaxUploads
  /\ LET processed_df == TreeRows(market_name, codes)
     IN trees' = DictSet(trees, market_name,
                         [df |-> processed_df, count |-> Len(processed_df)])
  /\ analysis_done' = FALSE
  /\ shown' = "trees"
  /\ calls' = <<>>
  /\ uploads' = uploads + 1
  /\ UNCHANGED <<ss, cache, page, fn_in, fn_out>>

\* a plausible slip: Remove forgets to reset analysis_done
RemoveTreeKeepsDone(market) ==
  /\ page = "Load Trees"
  /\ DictHas(trees, market)
  /\ trees' = DictDel(trees, market)
  /\ shown' = "trees"
  /\ calls' = <<>>
  /\ UNCHANGED <<analysis_done, ss, cache, page, uploads, fn_in, fn_out>>

\* Load Trees: Remove under a loaded market
RemoveTree(market) ==
  /\ page = "Load Trees"
  /\ DictHas(trees, market)
  /\ trees' = DictDel(trees, market)
  /\ analysis_done' = FALSE
  /\ shown' = "trees"
  /\ calls' = <<>>
  /\ UNCHANGED <<ss, cache, page, uploads, fn_in, fn_out>>

\* pd.concat([data['df'] for data in trees.values()], ignore_index=True)
RECURSIVE ConcatDfs(_)
ConcatDfs(items) ==
  IF items = <<>> THEN <<>> ELSE items[1][2].df \o ConcatDfs(Tail(items))

\* tuple(tuple((k, tuple(v)) for k, v in val.items()) for val in lookup.values())
LookupValues(lookup) ==
  [i \in 1..Len(lookup.items) |-> PyTuple(lookup.items[i][2].items)]

\* lookup_rebuilt[key] = {k: list(v) for k, v in val}
LookupRebuilt(lookup_keys, lookup_values) ==
  PyDict([i \in 1..Min(Len(lookup_keys), Len(lookup_values)) |->
            <<lookup_keys[i], PyDict(lookup_values[i].items)>>])

\* the body of the not-analysis_done branch, up to the first exception
RunBody ==
  LET combined_df == ConcatDfs(trees.items)
      markets == DictKeys(trees)
      b == CachedCall(cache.build, markets,
                      [exc |-> "none",
                       lookup |-> BuildPrefixLookup(combined_df, markets)])
      lookup == b.ret.lookup
      lookup_keys == DictKeys(lookup)
      lookup_values == LookupValues(lookup)
      a == CachedCall(cache.analyze, markets,
                      AnalyzePairs(lookup_keys, lookup_values, markets))
      s == CachedCall(cache.strict, markets,
                      GetStrictOneToOne(lookup_keys, lookup_values, markets))
      call_b == [fn |-> "build_prefix_lookup", df |-> combined_df,
                 markets |-> markets, ret |-> b.ret]
      call_a == [fn |-> "analyze_pairs_cached", lookup_keys |-> lookup_keys,
                 lookup_values |-> lookup_values, markets |-> markets,
                 ret |-> a.ret]
      call_s == [fn |-> "get_strict_one_to_one_cached",
                 lookup_keys |-> lookup_keys, lookup_values |-> lookup_values,
                 markets |-> markets, ret |-> s.ret]
  IN IF a.ret.exc # "none"
     THEN [exc |-> a.ret.exc, calls |-> <<call_b, call_a>>,
           cache |-> [cache EXCEPT !.build = b.entries]]
     ELSE IF s.ret.exc # "none"
     THEN [exc |-> s.ret.exc, calls |-> <<call_b, call_a, call_s>>,
           cache |-> [cache EXCEPT !.build = b.entries, !.analyze = a.entries]]
     ELSE [exc |-> "none", calls |-> <<call_b, call_a, call_s>>,
           cache |-> [build |-> b.entries, analyze |-> a.entries,
                      strict |-> s.entries],
           session |->
             [k \in {"combined_df", "lookup", "results", "stats", "strict_df",
                     "markets"} |->
                CASE k = "combined_df" -> combined_df
                  [] k = "lookup" -> LookupRebuilt(lookup_keys, lookup_values)
                  [] k = "results" -> a.ret.results
                  [] k = "stats" -> a.ret.stats
                  [] k = "strict_df" -> s.ret.rows
                  [] k = "markets" -> markets]]

\* Analysis: a click on Run Analysis, which the previous run had rendered
RunAnalysis ==
  /\ page = "Analysis"
  /\ shown \in {"run_button", "results", "AttributeError", "KeyError"}
  /\ IF TooFewMarkets(Len(trees.items))
     THEN /\ shown' = "warning_load_two"
          /\ calls' = <<>>
          /\ UNCHANGED <<analysis_done, ss, cache>>
     ELSE IF analysis_done
     THEN /\ shown' = RenderResults(trees, ss)
          /\ calls' = <<>>
          /\ UNCHANGED <<analysis_done, ss, cache>>
     ELSE IF RunBody.exc # "none"
     THEN /\ shown' = RunBody.exc
          /\ calls' = RunBody.calls
          /\ cache' = RunBody.cache
          /\ UNCHANGED <<analysis_done, ss>>
     ELSE /\ ss' = RunBody.session @@ ss
          /\ analysis_done' = TRUE
          /\ cache' = RunBody.cache
          /\ calls' = RunBody.calls
          /\ shown' = RenderResults(trees, RunBody.session)
  /\ UNCHANGED <<trees, page, uploads, fn_in, fn_out>>

\* ASIN Mapping: Map ASINs with an uploaded list and a chosen source market
MapAsins(asin_raw, source_market) ==
  /\ page = "ASIN Mapping"
  /\ analysis_done
  /\ source_market \in Range(ss.markets)
  /\ LET markets == ss.markets
         asin_df == PrepareAsin(asin_raw)
         target_markets == TargetMarkets(markets, source_market)
         result_df == MapAsinsFast(asin_df, ss.lookup, source_market,
                                   target_markets)
     IN IF result_df.exc # "none"
        THEN /\ shown' = result_df.exc
             /\ UNCHANGED ss
        ELSE /\ ss' = [k \in {"asin_results", "asin_source"} |->
                         IF k = "asin_results" THEN result_df.rows
                         ELSE source_market] @@ ss
             /\ shown' = "mapping_results"
  /\ calls' = <<>>
  /\ UNCHANGED <<trees, analysis_done, cache, page, uploads, fn_in, fn_out>>

NoFnInput == [markets |-> <<>>, df |-> <<>>]

Init ==
  /\ InitApp
  /\ fn_in = NoFnInput
  /\ fn_out = [op |-> "none"]

Next ==
  \/ \E p \in Pages : Navigate(p)
  \/ ClearCache
  \/ \E market_name \in MarketNames, codes \in AppTreeFiles :
       AddTree(market_name, codes)
  \/ \E market \in MarketNames : RemoveTree(market)
  \/ RunAnalysis
  \/ \E asin_raw \in AppAsinFiles, source_market \in MarketNames :
       MapAsins(asin_raw, source_market)

Spec == Init /\ [][Next]_vars

\* ------------------------------------------------------------------------
\* Direct application of the core functions to an index in mapping form:
\* each behaviour draws one input and applies one function to it
\* ------------------------------------------------------------------------
FnInputs ==
  {[markets |-> t, df |-> ConcatTrees(t, f)] :
     t \in MarketTuples(2), f \in [MarketNames -> TreeFiles]}

FnLookup == BuildPrefixLookup(fn_in.df, fn_in.markets)

Reverse(s) == [i \in 1..Len(s) |-> s[Len(s) + 1 - i]]

InitFn ==
  /\ InitApp
  /\ fn_in \in FnInputs
  /\ fn_out = [op |-> "none"]

FnAnalyze ==
  /\ fn_out.op = "none"
  /\ fn_out' = [op |-> "analyze",
                analysis |-> AnalyzePairs(DictKeys(FnLookup), DictValues(FnLookup),
                                          fn_in.markets)]
  /\ UNCHANGED <<appVars, fn_in>>

FnAnalyzeSwapped ==
  /\ fn_out.op = "none"
  /\ fn_out' = [op |-> "swapped",
                analysis |-> AnalyzePairs(DictKeys(FnLookup), DictValues(FnLookup),
                                          fn_in.markets),
                swapped |-> AnalyzePairs(DictKeys(FnLookup), DictValues(FnLookup),
                                         Reverse(fn_in.markets))]
  /\ UNCHANGED <<appVars, fn_in>>

FnStrict ==
  /\ fn_out.op = "none"
  /\ fn_out' = [op |-> "strict",
                strict |-> GetStrictOneToOne(DictKeys(FnLookup),
                                             DictValues(FnLookup), fn_in.markets)]
  /\ UNCHANGED <<appVars, fn_in>>

FnMap ==
  /\ fn_out.op = "none"
  /\ \E asin_raw \in AsinFiles, source_market \in Range(fn_in.markets) :
       LET asin_df == PrepareAsin(asin_raw)
           target_markets == TargetMarkets(fn_in.markets, source_market)
       IN fn_out' = [op |-> "map", asin_df |-> asin_df,
                     source_market |-> source_market,
                     target_markets |-> target_markets,
                     mapping |-> MapAsinsFast(asin_df, FnLookup, source_market,
                                              target_markets)]
  /\ UNCHANGED <<appVars, fn_in>>

NextFn == FnAnalyze \/ FnAnalyzeSwapped \/ FnStrict \/ FnMap

SpecFn == InitFn /\ [][NextFn]_vars

\* ------------------------------------------------------------------------
\* Direct application of the normalizer to a raw code column
\* ------------------------------------------------------------------------
\* pieces of raw cells: digit runs, the ".0" artifact, separators, blanks
Tokens ==
  {<<"1", "2">>, <<"3", "4", "5">>, <<"0">>, <<".", "0">>, <<"-">>, <<" ">>}

RECURSIVE Flatten(_)
Flatten(ts) == IF ts = <<>> THEN <<>> ELSE ts[1] \o Flatten(Tail(ts))

RawCells == {Flatten(ts) : ts \in SeqsUpTo(Tokens, MaxTokens)}

\* the rows below the first one
TailColumns ==
  {<<>>,
   <<<<"1", "2", "3", "4", ".", "0">>>>,
   <<<<" ", "1", "2", "3">>, <<"1", "0", "0", "0", "0", "1", "1", "0">>>>}

NormInputs ==
  {[column |-> <<cell>> \o rest, market_name |-> m] :
     cell \in RawCells, rest \in TailColumns, m \in MarketNames}

InitNorm ==
  /\ InitApp
  /\ fn_in \in NormInputs
  /\ fn_out = [op |-> "none"]

FnProcessTree ==
  /\ fn_out.op = "none"
  /\ fn_out' = [op |-> "process",
                processed |-> ProcessTreeData(fn_in.column, fn_in.market_name)]
  /\ UNCHANGED <<appVars, fn_in>>

NextNorm == FnProcessTree

SpecNorm == InitNorm /\ [][NextNorm]_vars

\* ------------------------------------------------------------------------
\* Properties of the core functions, stated against the raw combined table
\* ------------------------------------------------------------------------
IndexPrefixes == {fn_in.df[i].prefix : i \in 1..Len(fn_in.df)}

DistinctCodes(p, m) ==
  {fn_in.df[i].hs_code :
     i \in {k \in 1..Len(fn_in.df) :
              fn_in.df[k].prefix = p /\ fn_in.df[k].market = m}}

CodeCount(p, m) == Cardinality(DistinctCodes(p, m))

ClaimedRelation(cA, cB) ==
  CASE cA = 0 \/ cB = 0 -> "No Match"
    [] cA = 1 /\ cB = 1 -> "One-to-One"
    [] cA = 1 /\ cB > 1 -> "One-to-Many"
    [] cA > 1 /\ cB = 1 -> "Many-to-One"
    [] cA > 1 /\ cB > 1 -> "Many-to-Many"

RowsAt(rows, p) == {i \in 1..Len(rows) : rows[i].HS_Prefix = p}

\* C1: the pairwise report of every unordered pair of distinct loaded markets
\* has, for every prefix of the index, exactly one row, whose relation is the
\* one the five-way rule gives for the two distinct-code counts and whose
\* counts are those two counts, whatever the 5-code sample keeps.
C1_PairwiseClassifier ==
  fn_out.op = "analyze" =>
    /\ fn_out.analysis.exc = "none"
    /\ \A A \in Range(fn_in.markets), B \in Range(fn_in.markets) :
         A # B => \/ DictHas(fn_out.analysis.results, <<A, B>>)
                  \/ DictHas(fn_out.analysis.results, <<B, A>>)
    /\ \A k \in 1..Len(fn_out.analysis.results.items) :
         LET A == fn_out.analysis.results.items[k][1][1]
             B == fn_out.analysis.results.items[k][1][2]
             rows == fn_out.analysis.results.items[k][2]
         IN /\ A # B
            /\ Len(rows) = Cardinality(IndexPrefixes)
            /\ \A p \in IndexPrefixes :
                 \E i \in RowsAt(rows, p) :
                   /\ rows[i].Relation =
                        ClaimedRelation(CodeCount(p, A), CodeCount(p, B))
                   /\ rows[i].A_Count = CodeCount(p, A)
                   /\ rows[i].B_Count = CodeCount(p, B)

C1_Witness ==
  /\ fn_out.op = "analyze"
  /\ fn_out.analysis.exc = "none"
  /\ \E k \in 1..Len(fn_out.analysis.results.items) :
       \E i \in 1..Len(fn_out.analysis.results.items[k][2]) :
         LET row == fn_out.analysis.results.items[k][2][i]
         IN /\ row.A_Count > SampleSize
            /\ Len(row.A_Codes) = SampleSize
            /\ row.Relation = "Many-to-One"

\* C2: the relation the mapper reports for an entity and a target market is
\* the one the pairwise rule gives for (sc, tc), the distinct-code counts of
\* the source and the target market at the entity's prefix.
C2_MapperUsesPairwiseRule ==
  fn_out.op = "map" =>
    /\ fn_out.mapping.exc = "none"
    /\ \A i \in 1..Len(fn_out.mapping.rows) :
         \A t \in Range(fn_out.target_markets) :
           DictGet(fn_out.mapping.rows[i].Target, t, [Relation |-> "absent"]).Relation
             = ClaimedRelation(CodeCount(fn_out.asin_df[i].prefix,
                                         fn_out.source_market),
                               CodeCount(fn_out.asin_df[i].prefix, t))

StrictQualifies(p) ==
  /\ \A m \in Range(fn_in.markets) : CodeCount(p, m) <= 1
  /\ Cardinality({m \in Range(fn_in.markets) : CodeCount(p, m) = 1}) >= 2

\* C3: a prefix of the index is in the strict output iff no loaded market has
\* more than one code at it and at least two have exactly one; a row carries
\* the single code of each market that has one and the empty value for each
\* market that has none.
C3_StrictExtractor ==
  fn_out.op = "strict" =>
    /\ fn_out.strict.exc = "none"
    /\ \A p \in IndexPrefixes :
         Cardinality(RowsAt(fn_out.strict.rows, p))
           = IF StrictQualifies(p) THEN 1 ELSE 0
    /\ \A i \in 1..Len(fn_out.strict.rows) :
         LET row == fn_out.strict.rows[i]
         IN /\ row.HS_Prefix \in IndexPrefixes
            /\ DictKeys(row.Code) = fn_in.markets
            /\ \A m \in Range(fn_in.markets) :
                 /\ CodeCount(row.HS_Prefix, m) = 1
                      => DictGet(row.Code, m, EmptyString)
                           \in DistinctCodes(row.HS_Prefix, m)
                 /\ CodeCount(row.HS_Prefix, m) = 0
                      => DictGet(row.Code, m, <<0>>) = EmptyString

C3_Witness ==
  /\ fn_out.op = "strict"
  /\ fn_out.strict.exc = "none"
  /\ \E i \in 1..Len(fn_out.strict.rows) :
       \E m \in Range(fn_in.markets) :
         /\ CodeCount(fn_out.strict.rows[i].HS_Prefix, m) = 0
         /\ DictGet(fn_out.strict.rows[i].Code, m, <<0>>) = EmptyString
  /\ \E p \in IndexPrefixes :
       /\ \E m \in Range(fn_in.markets) : CodeCount(p, m) > 1
       /\ RowsAt(fn_out.strict.rows, p) = {}

\* C8: for every analysed pair the five relation counts add up to the number
\* of distinct prefixes of the index, and total_shared is the number of
\* prefixes at which both markets have at least one code.
C8_ClassifierTotals ==
  fn_out.op = "analyze" =>
    /\ fn_out.analysis.exc = "none"
    /\ DictKeys(fn_out.analysis.stats) = Combinations2(fn_in.markets)
    /\ \A k \in 1..Len(fn_out.analysis.stats.items) :
         LET A == fn_out.analysis.stats.items[k][1][1]
             B == fn_out.analysis.stats.items[k][1][2]
             s == fn_out.analysis.stats.items[k][2]
         IN /\ s.one_to_one + s.one_to_many + s.many_to_one + s.many_to_many
                 + s.no_match = Cardinality(IndexPrefixes)
            /\ s.total_shared =
                 Cardinality({p \in IndexPrefixes :
                                CodeCount(p, A) >= 1 /\ CodeCount(p, B) >= 1})

C8_Witness ==
  /\ fn_out.op = "analyze"
  /\ fn_out.analysis.exc = "none"
  /\ \E k \in 1..Len(fn_out.analysis.stats.items) :
       /\ fn_out.analysis.stats.items[k][2].no_match > 0
       /\ fn_out.analysis.stats.items[k][2].total_shared > 1

SwappedRelation(relation) ==
  CASE relation = "One-to-Many" -> "Many-to-One"
    [] relation = "Many-to-One" -> "One-to-Many"
    [] OTHER -> relation

\* C9: classifying a pair in the order (B, A) instead of (A, B) turns
\* One-to-Many into Many-to-One and back, prefix by prefix, and keeps the
\* other relations; the two statistics are swapped and the rest is unchanged.
C9_ClassifierSymmetry ==
  fn_out.op = "swapped" =>
    /\ fn_out.analysis.exc = "none"
    /\ fn_out.swapped.exc = "none"
    /\ \A k \in 1..Len(fn_out.analysis.results.items) :
         LET A == fn_out.analysis.results.items[k][1][1]
             B == fn_out.analysis.results.items[k][1][2]
             rows == fn_out.analysis.results.items[k][2]
             s == DictGet(fn_out.analysis.stats, <<A, B>>, ZeroStats)
         IN /\ DictHas(fn_out.swapped.results, <<B, A>>)
            /\ DictHas(fn_out.swapped.stats, <<B, A>>)
            /\ LET rowsR == DictGet(fn_out.swapped.results, <<B, A>>, <<>>)
                   sR == DictGet(fn_out.swapped.stats, <<B, A>>, ZeroStats)
               IN /\ Len(rowsR) = Len(rows)
                  /\ \A i \in 1..Len(rows) :
                       /\ rowsR[i].HS_Prefix = rows[i].HS_Prefix
                       /\ rowsR[i].Relation = SwappedRelation(rows[i].Relation)
                  /\ sR.one_to_many = s.many_to_one
                  /\ sR.many_to_one = s.one_to_many
                  /\ sR.one_to_one = s.one_to_one
                  /\ sR.many_to_many = s.many_to_many
                  /\ sR.no_match = s.no_match
                  /\ sR.total_shared = s.total_shared
                  /\ sR.percentage = s.percentage

C9_Witness ==
  /\ fn_out.op = "swapped"
  /\ fn_out.analysis.exc = "none"
  /\ \E k \in 1..Len(fn_out.analysis.stats.items) :
       /\ fn_out.analysis.stats.items[k][2].one_to_many > 0
       /\ fn_out.analysis.stats.items[k][2].many_to_one = 0
       /\ fn_out.analysis.stats.items[k][2].no_match > 0
       /\ DictGet(fn_out.swapped.stats,
                  <<fn_out.analysis.stats.items[k][1][2],
                    fn_out.analysis.stats.items[k][1][1]>>,
                  ZeroStats).many_to_one > 0

\* C10: an entity whose prefix is not in the index raises no error, still gets
\* its result row, and that row reports No Match and no sample codes for
\* every target market.
C10_UnknownPrefix ==
  fn_out.op = "map" =>
    /\ fn_out.mapping.exc = "none"
    /\ Len(fn_out.mapping.rows) = Len(fn_out.asin_df)
    /\ \A i \in 1..Len(fn_out.asin_df) :
         /\ fn_out.mapping.rows[i].ASIN = fn_out.asin_df[i].ASIN
         /\ fn_out.asin_df[i].prefix \notin IndexPrefixes =>
              \A t \in Range(fn_out.target_markets) :
                /\ DictHas(fn_out.mapping.rows[i].Target, t)
                /\ DictGet(fn_out.mapping.rows[i].Target, t, EmptyDict)
                     = [Relation |-> "No Match", Codes |-> <<>>]

C10_Witness ==
  /\ fn_out.op = "map"
  /\ fn_out.mapping.exc = "none"
  /\ IndexPrefixes # {}
  /\ fn_out.target_markets # <<>>
  /\ \E i \in 1..Len(fn_out.asin_df) :
       fn_out.asin_df[i].prefix \notin IndexPrefixes
  /\ \E i \in 1..Len(fn_out.asin_df) :
       fn_out.asin_df[i].prefix \in IndexPrefixes

\* ------------------------------------------------------------------------
\* Properties of the pages
\* ------------------------------------------------------------------------
\* the index and reports the loaded trees determine, in mapping form
TreesLookup == BuildPrefixLookup(ConcatDfs(trees.items), DictKeys(trees))

TreesAnalysis ==
  AnalyzePairs(DictKeys(TreesLookup), DictValues(TreesLookup), DictKeys(trees))

TreesStrict ==
  GetStrictOneToOne(DictKeys(TreesLookup), DictValues(TreesLookup),
                    DictKeys(trees))

\* C4: a Run Analysis executed with at least two loaded markets ends without
\* an internal error, with a report and a statistics entry stored for every
\* pair of loaded markets and the strict table stored, and analysis_done set.
C4_RunAnalysisCompletes ==
  (page = "Analysis" /\ calls # <<>> /\ Len(trees.items) >= 2) =>
    /\ shown = "results"
    /\ analysis_done
    /\ Has("results") /\ Has("stats") /\ Has("strict_df")
    /\ DictKeys(ss.results) = Combinations2(DictKeys(trees))
    /\ DictKeys(ss.stats) = Combinations2(DictKeys(trees))

\* what the function named in a call record computes from the record's input
OwnResult(call) ==
  CASE call.fn = "build_prefix_lookup" ->
         [exc |-> "none", lookup |-> BuildPrefixLookup(call.df, call.markets)]
    [] call.fn = "analyze_pairs_cached" ->
         AnalyzePairs(call.lookup_keys, call.lookup_values, call.markets)
    [] call.fn = "get_strict_one_to_one_cached" ->
         GetStrictOneToOne(call.lookup_keys, call.lookup_values, call.markets)

\* C5: every call of a cached function returns the result computed from the
\* input content of that call, whatever earlier calls were given.
C5_NoStaleMemo ==
  \A i \in 1..Len(calls) : calls[i].ret = OwnResult(calls[i])

\* the entity list a stored mapping report was computed for
AsinOfResults(rows) ==
  [i \in 1..Len(rows) |->
     [ASIN |-> rows[i].ASIN, hs_code |-> rows[i].Source_Code,
      prefix |-> rows[i].Prefix]]

\* C6: whenever the pages show or export reports (analysis_done), the stored
\* pairwise reports, statistics, strict table and entity mapping report are
\* those the currently loaded trees give.
C6_ReportsFresh ==
  analysis_done =>
    /\ Has("results") /\ Has("stats") /\ Has("strict_df")
    /\ ss.results = TreesAnalysis.results
    /\ ss.stats = TreesAnalysis.stats
    /\ ss.strict_df = TreesStrict.rows
    /\ Has("asin_results") =>
         ss.asin_results =
           MapAsinsFast(AsinOfResults(ss.asin_results), TreesLookup,
                        ss.asin_source,
                        TargetMarkets(DictKeys(trees), ss.asin_source)).rows

\* C7: a script run of the Analysis page with fewer than two loaded markets
\* shows the warning, calls none of the cached functions and leaves the
\* session state as it was.
C7_TooFewMarkets ==
  [][(page' = "Analysis" /\ Len(trees.items) < 2) =>
       /\ shown' = "warning_load_two"
       /\ calls' = <<>>
       /\ UNCHANGED <<trees, analysis_done, ss>>]_vars

C7_Witness ==
  /\ page = "Analysis"
  /\ shown = "warning_load_two"
  /\ Len(trees.items) = 1
  /\ Has("results")
  /\ ~analysis_done

\* ------------------------------------------------------------------------
\* Properties of the normalizer, stated on the raw cells
\* ------------------------------------------------------------------------
\* the cell between its first and last non-blank character
Trimmed(raw) ==
  LET solid == {i \in 1..Len(raw) : raw[i] # " "}
  IN IF solid = {} THEN <<>>
     ELSE SubSeq(raw, CHOOSE i \in solid : \A j \in solid : i <= j,
                      CHOOSE i \in solid : \A j \in solid : i >= j)

EndsWithDotZero(s) == Len(s) >= 2 /\ SubSeq(s, Len(s) - 1, Len(s)) = <<".", "0">>

\* the digit characters of the trimmed cell less one trailing ".0", in order
ClaimedDigits(raw) ==
  LET t == Trimmed(raw)
      u == IF EndsWithDotZero(t) THEN SubSeq(t, 1, Len(t) - 2) ELSE t
      at == {i \in 1..Len(u) : u[i] \in {"0", "1", "2", "3", "4", "5", "6",
                                         "7", "8", "9"}}
      nth(k) == CHOOSE i \in at : Cardinality({j \in at : j < i}) = k - 1
  IN [k \in 1..Cardinality(at) |-> u[nth(k)]]

ClaimedRetained(raw) == Len(ClaimedDigits(raw)) >= 4

\* the input rows that are retained, in input order
RetainedRows ==
  LET at == {i \in 1..Len(fn_in.column) : ClaimedRetained(fn_in.column[i])}
      nth(k) == CHOOSE i \in at : Cardinality({j \in at : j < i}) = k - 1
  IN [k \in 1..Cardinality(at) |-> nth(k)]

\* C11: the normalizer keeps exactly the rows whose cleaned digit string has
\* at least 4 digits, in input order; each kept record carries that string,
\* its first 6 digits as prefix when it has 6 or more and the whole string
\* otherwise; the returned count is the number of kept records.
C11_Normalizer ==
  fn_out.op = "process" =>
    /\ Len(fn_out.processed.df) = Len(RetainedRows)
    /\ fn_out.processed.count = Len(RetainedRows)
    /\ \A k \in 1..Len(fn_out.processed.df) :
         LET rec == fn_out.processed.df[k]
             digits == ClaimedDigits(fn_in.column[RetainedRows[k]])
         IN /\ Len(rec.hs_code) = Len(digits)
            /\ \A i \in 1..Len(digits) :
                 DigitChars[rec.hs_code[i] + 1] = digits[i]
            /\ Len(rec.hs_code) >= 4
            /\ rec.prefix = IF Len(rec.hs_code) >= 6
                            THEN SubSeq(rec.hs_code, 1, 6) ELSE rec.hs_code
            /\ rec.market = fn_in.market_name

C11_Witness ==
  /\ fn_out.op = "process"
  /\ Len(fn_in.column) = 3
  /\ fn_out.processed.count = 2
  /\ EndsWithDotZero(Trimmed(fn_in.column[1]))
  /\ fn_in.column[1][1] = " "
  /\ \E i \in 1..(Len(fn_in.column[1]) - 2) :
       fn_in.column[1][i] = "." /\ fn_in.column[1][i + 1] = "0"
  /\ Len(fn_out.processed.df[1].hs_code) = 4
  /\ Len(fn_out.processed.df[2].hs_code) = 8

\* ------------------------------------------------------------------------
\* Session invariant of the pages
\* ------------------------------------------------------------------------
\* C12: after any step, analysis_done implies that the stored market list is
\* the key list of the loaded trees, in order, with at least two entries, so
\* that the Display Results block finds every market it looks up; and a step
\* that adds or removes a tree leaves analysis_done false.
C12_SessionInvariant ==
  [][/\ analysis_done' =>
          /\ "markets" \in DOMAIN ss'
          /\ ss'.markets = DictKeys(trees')
          /\ Len(ss'.markets) >= 2
          /\ \A m \in Range(ss'.markets) : DictHas(trees', m)
     /\ shown' # "KeyError"
     /\ (trees' # trees \/ uploads' # uploads) => ~analysis_done']_vars

C12_Witness ==
  /\ analysis_done
  /\ page = "Analysis"
  /\ shown = "results"
  /\ Len(ss.markets) = 2
  /\ ss.markets = DictKeys(trees)
  /\ uploads = 3
  /\ \E i \in 1..Len(trees.items) : trees.items[i][2].count > 0

====
